---- MODULE Spec2Model ----
(***************************************************************************)
(* Session controller of the voice-assistant widget (src/src/App.tsx).     *)
(*                                                                         *)
(* The component keeps three boolean flags, an error message, a reference  *)
(* to the latest MediaRecorder and one shared array of audio chunks.  The  *)
(* handlers run on the browser's single-threaded event loop: every action  *)
(* below is one task (a click handler, or the continuation of an await)    *)
(* and runs to its next await without interleaving.                        *)
(*                                                                         *)
(* Every call of startRecording() is one "pipeline", numbered in call      *)
(* order; pc[i] is the position of pipeline i:                             *)
(*   unused -> micPending -> denied                                        *)
(*                        -> recording -> stopping -> transcribing         *)
(*                             -> failed | responding -> failed | speaking *)
(*                             speaking -> done | errored                  *)
(*                             speaking -> cancelled -> done               *)
(* React state is taken as committed at the end of each task.  The locals  *)
(* of a pipeline are reset once nothing reads them any more.               *)
(***************************************************************************)
EXTENDS Integers, Sequences, FiniteSets, TLC

\* Number of startRecording() calls that are modelled.
MaxPipelines == 2

Pipelines == 1..MaxPipelines

\* The three user-facing messages and the absent error (null).
NoError == "null"
MicMsg == "Unable to access microphone. Please check your permissions."
ProcessingMsg == "Sorry, there was an error processing your request. Please try again."
PlaybackMsg == "Error playing audio response"
Fallback == "Sorry, I could not generate a response."
PromptPrefix == "Respond to this in a natural, spoken manner. Minimize use of numbering, unless absolutely needed. "

\* Markers for "no value yet" in the per-pipeline locals.
NoText == "<unset>"
NoCall == <<>>

VARIABLES
    isRecording,        \* useState flag
    isPlaying,          \* useState flag
    isProcessing,       \* useState flag
    error,              \* useState<string | null>
    mediaRecorderRef,   \* id of the recorder in mediaRecorderRef.current, 0 = null
    audioChunksRef,     \* audioChunksRef.current: sequence of chunks, a chunk is its recorder's id
    pc,                 \* position of each pipeline
    delivered,          \* per recorder: the non-empty chunks it has delivered
    audioBlob,          \* per pipeline: the chunks read into `audioBlob` by onstop
    prompt,             \* per pipeline: the prompt sent to the generative service
    utterance,          \* per pipeline: text of the utterance handed to speechSynthesis
    synthQueue,         \* speechSynthesis queue: pipelines whose utterance is queued, head is spoken
    calls               \* number of trigger actions and of the external calls they made

vars == <<isRecording, isPlaying, isProcessing, error, mediaRecorderRef,
          audioChunksRef, pc, delivered, audioBlob, prompt, utterance,
          synthQueue, calls>>

\* Replies of the speech service: body is the list of results, each result
\* the list of its alternatives' transcripts.
SttReplies ==
    { [status |-> "neterror", body |-> <<>>],
      [status |-> "500", body |-> <<>>],
      [status |-> "200", body |-> <<>>],
      [status |-> "200", body |-> << <<"">> >>],
      [status |-> "200", body |-> << <<"hello", "hollow">> >>] }

\* Replies of the generative service: body is the list of candidates, each
\* candidate the list of its parts' texts.
GeminiReplies ==
    { [status |-> "neterror", body |-> <<>>],
      [status |-> "500", body |-> <<>>],
      [status |-> "200", body |-> <<>>],
      [status |-> "200", body |-> << <<>> >>],
      [status |-> "200", body |-> << <<"">> >>],
      [status |-> "200", body |-> << <<"Hi there">> >>] }

\* Sizes of the blob a recorder delivers with its dataavailable event.
BlobSizes == {0, 1}

Threw == [threw |-> TRUE, value |-> ""]
Returned(v) == [threw |-> FALSE, value |-> v]

\* convertSpeechToText, from the reply on: every throw inside the try block
\* is rethrown by its catch.
ConvertSpeechToText(reply) ==
    IF reply.status # "200" THEN Threw
    ELSE IF Len(reply.body) = 0 THEN Threw
    ELSE IF Len(reply.body[1]) = 0 THEN Threw
    ELSE Returned(reply.body[1][1])

\* data.candidates?.[0]?.content?.parts?.[0]?.text, "" standing for undefined.
CandidateText(reply) ==
    IF Len(reply.body) = 0 THEN ""
    ELSE IF Len(reply.body[1]) = 0 THEN ""
    ELSE reply.body[1][1]

\* getGeminiResponse, from the reply on.
GetGeminiResponse(reply) ==
    IF reply.status # "200" THEN Threw
    ELSE IF CandidateText(reply) = "" THEN Returned(Fallback)
    ELSE Returned(CandidateText(reply))

\* The template literal of the request body.
Prompt(t) == <<PromptPrefix, t>>

Init ==
    /\ isRecording = FALSE
    /\ isPlaying = FALSE
    /\ isProcessing = FALSE
    /\ error = NoError
    /\ mediaRecorderRef = 0
    /\ audioChunksRef = <<>>
    /\ pc = [i \in Pipelines |-> "unused"]
    /\ delivered = [i \in Pipelines |-> <<>>]
    /\ audioBlob = [i \in Pipelines |-> <<>>]
    /\ prompt = [i \in Pipelines |-> NoCall]
    /\ utterance = [i \in Pipelines |-> NoText]
    /\ synthQueue = <<>>
    /\ calls = [trigger |-> 0, getUserMedia |-> 0, stop |-> 0, cancel |-> 0]

InQueue(i) == \E k \in 1..Len(synthQueue) : synthQueue[k] = i

\* The variables no trigger action assigns.
locals == <<delivered, audioBlob, prompt, utterance>>

\* startRecording up to its await: the microphone request is made.
StartRecording ==
    /\ \E i \in Pipelines : pc[i] = "unused"
    /\ LET i == CHOOSE j \in Pipelines :
                    pc[j] = "unused" /\ \A k \in Pipelines : pc[k] = "unused" => j <= k
       IN pc' = [pc EXCEPT ![i] = "micPending"]
    /\ calls' = [calls EXCEPT !.trigger = @ + 1, !.getUserMedia = @ + 1]
    /\ UNCHANGED <<isRecording, isPlaying, isProcessing, error, mediaRecorderRef,
                   audioChunksRef, synthQueue, locals>>

\* stopRecording: stops the recorder in mediaRecorderRef and its tracks.
StopRecording ==
    /\ IF mediaRecorderRef # 0 /\ isRecording
       THEN /\ pc' = IF pc[mediaRecorderRef] = "recording"
                     THEN [pc EXCEPT ![mediaRecorderRef] = "stopping"]
                     ELSE pc
            /\ isRecording' = FALSE
            /\ calls' = [calls EXCEPT !.trigger = @ + 1, !.stop = @ + 1]
       ELSE /\ calls' = [calls EXCEPT !.trigger = @ + 1]
            /\ UNCHANGED <<pc, isRecording>>
    /\ UNCHANGED <<isPlaying, isProcessing, error, mediaRecorderRef,
                   audioChunksRef, synthQueue, locals>>

\* stopSpeaking: speechSynthesis.cancel() empties the queue.
StopSpeaking ==
    /\ pc' = [i \in Pipelines |-> IF InQueue(i) THEN "cancelled" ELSE pc[i]]
    /\ synthQueue' = <<>>
    /\ isPlaying' = FALSE
    /\ calls' = [calls EXCEPT !.trigger = @ + 1, !.cancel = @ + 1]
    /\ UNCHANGED <<isRecording, isProcessing, error, mediaRecorderRef,
                   audioChunksRef, locals>>

\* A slip in the branch order: the recording test comes first.
HandleButtonClickRecordingFirst ==
    IF isRecording THEN StopRecording
    ELSE IF isPlaying THEN StopSpeaking
    ELSE StartRecording

\* The trigger action.
HandleButtonClick ==
    IF isPlaying THEN StopSpeaking
    ELSE IF isRecording THEN StopRecording
    ELSE StartRecording

\* A slip in startRecording: setError(null) is left out.
MicGrantedKeepsError(i) ==
    /\ pc[i] = "micPending"
    /\ mediaRecorderRef' = i
    /\ audioChunksRef' = <<>>
    /\ pc' = [pc EXCEPT ![i] = "recording"]
    /\ isRecording' = TRUE
    /\ UNCHANGED <<error, isPlaying, isProcessing, synthQueue, calls, locals>>

\* getUserMedia resolves: the rest of startRecording's try block.
MicGranted(i) ==
    /\ pc[i] = "micPending"
    /\ mediaRecorderRef' = i
    /\ audioChunksRef' = <<>>
    /\ error' = NoError
    /\ pc' = [pc EXCEPT ![i] = "recording"]
    /\ isRecording' = TRUE
    /\ UNCHANGED <<isPlaying, isProcessing, synthQueue, calls, locals>>

\* getUserMedia rejects (or the recorder cannot be constructed): the catch.
MicDenied(i) ==
    /\ pc[i] = "micPending"
    /\ error' = MicMsg
    /\ pc' = [pc EXCEPT ![i] = "denied"]
    /\ UNCHANGED <<isRecording, isPlaying, isProcessing, mediaRecorderRef,
                   audioChunksRef, synthQueue, calls, locals>>

\* The task queued by recorder.stop(): it fires dataavailable with the
\* recorded blob (start() was given no timeslice, so this is the recorder's
\* only blob) and then stop.  ondataavailable keeps a non-empty blob; onstop
\* sets the processing flag, reads the shared array and sends the request.
RecorderStopTask(i, size) ==
    /\ pc[i] = "stopping"
    /\ LET chunks == IF size > 0 THEN Append(audioChunksRef, i) ELSE audioChunksRef
       IN /\ audioChunksRef' = chunks
          /\ audioBlob' = [audioBlob EXCEPT ![i] = chunks]
    /\ delivered' = [delivered EXCEPT ![i] = IF size > 0 THEN Append(@, i) ELSE @]
    /\ isProcessing' = TRUE
    /\ pc' = [pc EXCEPT ![i] = "transcribing"]
    /\ UNCHANGED <<isRecording, isPlaying, error, mediaRecorderRef, prompt,
                   utterance, synthQueue, calls>>

\* onstop's catch and finally.
ProcessingFailed(i) ==
    /\ error' = ProcessingMsg
    /\ isPlaying' = FALSE
    /\ isProcessing' = FALSE
    /\ pc' = [pc EXCEPT ![i] = "failed"]

\* A slip in onstop: the test of the transcribed text is left out.
SttSettledNoEmptyCheck(i, reply) ==
    /\ pc[i] = "transcribing"
    /\ audioBlob' = [audioBlob EXCEPT ![i] = <<>>]
    /\ delivered' = [delivered EXCEPT ![i] = <<>>]
    /\ LET r == ConvertSpeechToText(reply)
       IN IF r.threw
          THEN /\ ProcessingFailed(i)
               /\ UNCHANGED prompt
          ELSE /\ prompt' = [prompt EXCEPT ![i] = Prompt(r.value)]
               /\ pc' = [pc EXCEPT ![i] = "responding"]
               /\ UNCHANGED <<error, isPlaying, isProcessing>>
    /\ UNCHANGED <<isRecording, mediaRecorderRef, audioChunksRef, utterance,
                   synthQueue, calls>>

\* The speech service answers with reply and convertSpeechToText settles:
\* onstop goes on to the generative service, or to its catch.
SttSettled(i, reply) ==
    /\ pc[i] = "transcribing"
    /\ audioBlob' = [audioBlob EXCEPT ![i] = <<>>]
    /\ delivered' = [delivered EXCEPT ![i] = <<>>]
    /\ LET r == ConvertSpeechToText(reply)
       IN IF r.threw \/ r.value = ""
          THEN /\ ProcessingFailed(i)
               /\ UNCHANGED prompt
          ELSE /\ prompt' = [prompt EXCEPT ![i] = Prompt(r.value)]
               /\ pc' = [pc EXCEPT ![i] = "responding"]
               /\ UNCHANGED <<error, isPlaying, isProcessing>>
    /\ UNCHANGED <<isRecording, mediaRecorderRef, audioChunksRef, utterance,
                   synthQueue, calls>>

\* The generative service answers with reply and getGeminiResponse settles:
\* onstop hands the text to speak(), or goes to its catch; the finally
\* clears the processing flag.
GeminiSettled(i, reply) ==
    /\ pc[i] = "responding"
    /\ prompt' = [prompt EXCEPT ![i] = NoCall]
    /\ LET r == GetGeminiResponse(reply)
       IN IF r.threw
          THEN /\ ProcessingFailed(i)
               /\ UNCHANGED <<utterance, synthQueue>>
          ELSE /\ isPlaying' = TRUE
               /\ utterance' = [utterance EXCEPT ![i] = r.value]
               /\ synthQueue' = Append(synthQueue, i)
               /\ isProcessing' = FALSE
               /\ pc' = [pc EXCEPT ![i] = "speaking"]
               /\ UNCHANGED error
    /\ UNCHANGED <<isRecording, mediaRecorderRef, audioChunksRef, delivered,
                   audioBlob, calls>>

\* utterance.onend for the utterance being spoken.
UtteranceEnd(i) ==
    /\ synthQueue # <<>>
    /\ i = Head(synthQueue)
    /\ synthQueue' = Tail(synthQueue)
    /\ isPlaying' = FALSE
    /\ pc' = [pc EXCEPT ![i] = "done"]
    /\ utterance' = [utterance EXCEPT ![i] = NoText]
    /\ UNCHANGED <<isRecording, isProcessing, error, mediaRecorderRef,
                   audioChunksRef, delivered, audioBlob, prompt, calls>>

\* A slip in onerror: the message of the processing catch is reused.
UtteranceErrorGenericMsg(i) ==
    /\ synthQueue # <<>>
    /\ i = Head(synthQueue)
    /\ synthQueue' = Tail(synthQueue)
    /\ isPlaying' = FALSE
    /\ error' = ProcessingMsg
    /\ pc' = [pc EXCEPT ![i] = "errored"]
    /\ utterance' = [utterance EXCEPT ![i] = NoText]
    /\ UNCHANGED <<isRecording, isProcessing, mediaRecorderRef, audioChunksRef,
                   delivered, audioBlob, prompt, calls>>

\* utterance.onerror for the utterance being spoken.
UtteranceError(i) ==
    /\ synthQueue # <<>>
    /\ i = Head(synthQueue)
    /\ synthQueue' = Tail(synthQueue)
    /\ isPlaying' = FALSE
    /\ error' = PlaybackMsg
    /\ pc' = [pc EXCEPT ![i] = "errored"]
    /\ utterance' = [utterance EXCEPT ![i] = NoText]
    /\ UNCHANGED <<isRecording, isProcessing, mediaRecorderRef, audioChunksRef,
                   delivered, audioBlob, prompt, calls>>

\* The event an engine fires on an utterance removed by cancel(): engines
\* report it as an end or as an error ("interrupted"/"canceled"); the
\* handlers of speak() do not tell the two origins apart.
CancelledCallback(i, kind) ==
    /\ pc[i] = "cancelled"
    /\ isPlaying' = FALSE
    /\ error' = IF kind = "error" THEN PlaybackMsg ELSE error
    /\ pc' = [pc EXCEPT ![i] = "done"]
    /\ utterance' = [utterance EXCEPT ![i] = NoText]
    /\ UNCHANGED <<isRecording, isProcessing, mediaRecorderRef, audioChunksRef,
                   delivered, audioBlob, prompt, synthQueue, calls>>

Next ==
    \/ HandleButtonClick
    \/ \E i \in Pipelines : MicGranted(i)
    \/ \E i \in Pipelines : MicDenied(i)
    \/ \E i \in Pipelines, size \in BlobSizes : RecorderStopTask(i, size)
    \/ \E i \in Pipelines, reply \in SttReplies : SttSettled(i, reply)
    \/ \E i \in Pipelines, reply \in GeminiReplies : GeminiSettled(i, reply)
    \/ \E i \in Pipelines : UtteranceEnd(i)
    \/ \E i \in Pipelines : UtteranceError(i)
    \/ \E i \in Pipelines, kind \in {"end", "error"} : CancelledCallback(i, kind)

Spec == Init /\ [][Next]_vars

\* The remote calls and engine callbacks that were started do resolve; the
\* user is under no obligation to press the button.
Fairness ==
    /\ WF_vars(\E i \in Pipelines : MicGranted(i) \/ MicDenied(i))
    /\ WF_vars(\E i \in Pipelines, size \in BlobSizes : RecorderStopTask(i, size))
    /\ WF_vars(\E i \in Pipelines, reply \in SttReplies : SttSettled(i, reply))
    /\ WF_vars(\E i \in Pipelines, reply \in GeminiReplies : GeminiSettled(i, reply))
    /\ WF_vars(\E i \in Pipelines : UtteranceEnd(i) \/ UtteranceError(i))
    /\ WF_vars(\E i \in Pipelines, kind \in {"end", "error"} : CancelledCallback(i, kind))

LiveSpec == Init /\ [][Next]_vars /\ Fairness

(***************************************************************************)
(* Vocabulary of the properties.                                           *)
(***************************************************************************)

AllFalse == ~isRecording /\ ~isProcessing /\ ~isPlaying

\* The session phase: a phase holds when its flag is the only one set.
Phase ==
    IF AllFalse THEN "Idle"
    ELSE IF isRecording /\ ~isProcessing /\ ~isPlaying THEN "Recording"
    ELSE IF isProcessing /\ ~isRecording /\ ~isPlaying THEN "Processing"
    ELSE IF isPlaying /\ ~isRecording /\ ~isProcessing THEN "Speaking"
    ELSE "Overlap"

\* A pipeline is in flight from its microphone request until it ends.
InFlight(i) ==
    pc[i] \in {"micPending", "recording", "stopping", "transcribing",
               "responding", "speaking"}

\* Steps, recognised by what they change.
TriggerStep == calls'.trigger # calls.trigger
CaptureRequested(i) == pc[i] = "unused" /\ pc'[i] = "micPending"
CaptureStarted(i) == pc[i] = "micPending" /\ pc'[i] = "recording"
CaptureStopped(i) == pc[i] = "recording" /\ pc'[i] = "stopping"
MicFailed(i) == pc[i] = "micPending" /\ pc'[i] = "denied"
SttReturned(i) == pc[i] = "transcribing" /\ pc'[i] # "transcribing"
GeminiReturned(i) == pc[i] = "responding" /\ pc'[i] # "responding"
PipelineFailed(i) == pc[i] # "failed" /\ pc'[i] = "failed"
PipelineSucceeded(i) == pc[i] = "responding" /\ pc'[i] = "speaking"
CancelledCallbackDelivered(i) == pc[i] = "cancelled" /\ pc'[i] = "done"

\* C1: in every reachable state at most one of the flags recording,
\* processing and speaking is true.
C1_AtMostOneFlag ==
    /\ ~(isRecording /\ isProcessing)
    /\ ~(isRecording /\ isPlaying)
    /\ ~(isProcessing /\ isPlaying)

\* C2: at any instant at most one pipeline is in flight; a trigger action
\* never starts a second one.
C2_AtMostOnePipeline ==
    Cardinality({i \in Pipelines : InFlight(i)}) <= 1

\* C3: every change of the session phase is Idle to Recording (by a trigger
\* action, through its microphone request), Recording to Processing (by
\* trigger), Processing to Speaking (pipeline success), Processing to Idle
\* (pipeline failure) or Speaking to Idle; no other change is reachable.
C3_PhaseChange ==
    \/ Phase' = Phase
    \/ /\ Phase = "Idle" /\ Phase' = "Recording"
       /\ TriggerStep \/ \E i \in Pipelines : CaptureStarted(i)
    \/ /\ Phase = "Recording" /\ Phase' = "Processing"
       /\ TriggerStep
    \/ /\ Phase = "Processing" /\ Phase' = "Speaking"
       /\ \E i \in Pipelines : PipelineSucceeded(i)
    \/ /\ Phase = "Processing" /\ Phase' = "Idle"
       /\ \E i \in Pipelines : PipelineFailed(i)
    \/ /\ Phase = "Speaking" /\ Phase' = "Idle"

C3_OnlyLegalTransitions == [][C3_PhaseChange]_vars

\* C4: every trigger action performs exactly one effect, chosen in strict
\* priority order from the flags: cancel playback if speaking, else stop the
\* capture if recording, else start a capture; never two of them.
C4_Effect ==
    /\ calls'.trigger = calls.trigger + 1
    /\ IF isPlaying
       THEN /\ calls'.cancel = calls.cancel + 1
            /\ synthQueue' = <<>>
            /\ calls'.stop = calls.stop
            /\ calls'.getUserMedia = calls.getUserMedia
            /\ \A i \in Pipelines : ~CaptureStopped(i) /\ ~CaptureRequested(i)
       ELSE IF isRecording
       THEN /\ calls'.stop = calls.stop + 1
            /\ CaptureStopped(mediaRecorderRef)
            /\ calls'.cancel = calls.cancel
            /\ synthQueue' = synthQueue
            /\ calls'.getUserMedia = calls.getUserMedia
            /\ \A i \in Pipelines : ~CaptureRequested(i)
       ELSE /\ calls'.getUserMedia = calls.getUserMedia + 1
            /\ \E i \in Pipelines : CaptureRequested(i)
            /\ calls'.cancel = calls.cancel
            /\ synthQueue' = synthQueue
            /\ calls'.stop = calls.stop
            /\ \A i \in Pipelines : ~CaptureStopped(i)

C4_TriggerPriority == [][TriggerStep => C4_Effect]_vars

\* All three effects have been performed, the cancel with a capture around.
C4_Witness ==
    /\ calls.cancel > 0 /\ calls.stop > 0 /\ calls.getUserMedia > 1
    /\ isRecording
    /\ \E i \in Pipelines : pc[i] = "cancelled"

\* C5: a trigger action while speaking clears the speaking flag and leaves
\* lastError alone, and so does every callback the engine delivers for the
\* cancelled utterance.
C5_Step ==
    /\ (isPlaying /\ TriggerStep) => (~isPlaying' /\ error' = error)
    /\ \A i \in Pipelines :
          CancelledCallbackDelivered(i) => (~isPlaying' /\ error' = error)

C5_CancelSetsNoError == [][C5_Step]_vars

\* A reply with which transcription fails: transport error, non-success
\* status, empty result list or empty transcript.
TranscriptionFails(reply) ==
    \/ reply.status = "neterror"
    \/ reply.status # "200"
    \/ reply.body = <<>>
    \/ reply.body[1] = <<>>
    \/ reply.body[1][1] = ""

\* C6: a pipeline whose transcription fails never calls the Response Client
\* nor Speech Output, and ends with the phase Idle and lastError set to the
\* generic processing message.
C6_Step ==
    \A i \in Pipelines :
        /\ \A reply \in SttReplies :
                (TranscriptionFails(reply) /\ SttSettled(i, reply)) =>
                    /\ pc'[i] = "failed"
                    /\ prompt'[i] = NoCall
                    /\ utterance'[i] = NoText
                    /\ Phase' = "Idle"
                    /\ error' = ProcessingMsg
        /\ pc[i] = "failed" =>
                /\ pc'[i] = "failed"
                /\ prompt'[i] = NoCall
                /\ utterance'[i] = NoText

C6_TranscriptionFailureEndsIdle == [][C6_Step]_vars

\* A successful reply that carries no candidate text: no candidates, no
\* parts, or an empty text.
NoCandidateText(reply) ==
    /\ reply.status = "200"
    /\ \/ reply.body = <<>>
       \/ reply.body[1] = <<>>
       \/ reply.body[1][1] = ""

\* C7: when the Response Client's reply carries no candidate text the
\* pipeline still reaches Speaking, the fallback string is handed to Speech
\* Output and lastError is not set.
C7_Step ==
    \A i \in Pipelines, reply \in GeminiReplies :
        (NoCandidateText(reply) /\ GeminiSettled(i, reply)) =>
            /\ pc'[i] = "speaking"
            /\ utterance'[i] = Fallback
            /\ synthQueue' = Append(synthQueue, i)
            /\ Phase' = "Speaking"
            /\ error' = NoError

C7_FallbackReachesSpeaking == [][C7_Step]_vars

\* C8: provided the started calls and callbacks resolve, a failure is always
\* followed by a state with all three flags false and lastError set, and in
\* such a state a trigger action starts a new recording attempt.
C8_FailureReturnsToIdle ==
    /\ (error # NoError) ~> (AllFalse /\ error # NoError)
    /\ [][(AllFalse /\ error # NoError /\ TriggerStep) =>
                \E i \in Pipelines : CaptureRequested(i)]_vars

\* C9: a failed microphone request sets lastError to the microphone message
\* and leaves the session in Idle: all three flags false, no capture source
\* started, the fragment buffer unchanged.
C9_Step ==
    \A i \in Pipelines :
        MicFailed(i) =>
            /\ error' = MicMsg
            /\ AllFalse'
            /\ \A j \in Pipelines : ~CaptureStarted(j)
            /\ mediaRecorderRef' = mediaRecorderRef
            /\ audioChunksRef' = audioChunksRef

C9_MicFailureLeavesIdle == [][C9_Step]_vars

\* C10: the payload handed to the Transcription Client is exactly the
\* sequence of non-empty fragments that the recording's own capture source
\* delivered.
C10_PayloadIsOwnFragments ==
    \A i \in Pipelines :
        pc[i] = "transcribing" => audioBlob[i] = delivered[i]

\* Calls of a pipeline, recognised by what they change.
RecorderStopped(i) == pc[i] = "stopping" /\ pc'[i] # "stopping"
SttCalled(i) == pc[i] # "transcribing" /\ pc'[i] = "transcribing"
GeminiCalled(i) == prompt[i] = NoCall /\ prompt'[i] # NoCall
SpeechCalled(i) == utterance[i] = NoText /\ utterance'[i] # NoText

\* C11: a recording stopped with zero accumulated fragments still invokes
\* the Transcription Client, with an empty payload, and that pipeline ends
\* as a transcription failure whatever the service replies: phase Idle,
\* lastError set, Response Client and Speech Output never invoked.
C11_Step ==
    \A i \in Pipelines :
        /\ RecorderStopped(i) => (SttCalled(i) /\ pc'[i] = "transcribing")
        /\ (SttReturned(i) /\ audioBlob[i] = <<>>) =>
                /\ pc'[i] = "failed"
                /\ prompt'[i] = NoCall
                /\ utterance'[i] = NoText
                /\ Phase' = "Idle"
                /\ error' # NoError

C11_EmptyPayloadFails == [][C11_Step]_vars

\* The order of the positions of a pipeline.
Rank(p) ==
    CASE p = "unused" -> 0
      [] p = "micPending" -> 1
      [] p = "denied" -> 2
      [] p = "recording" -> 2
      [] p = "stopping" -> 3
      [] p = "transcribing" -> 4
      [] p = "responding" -> 5
      [] p = "failed" -> 6
      [] p = "speaking" -> 6
      [] p = "cancelled" -> 7
      [] p = "done" -> 8
      [] p = "errored" -> 8

\* C12: within a pipeline the Transcription Client is called exactly once,
\* when the recorder stops; the Response Client at most once, only after a
\* non-empty transcript and with a prompt containing it; Speech Output at
\* most once, only after the Response Client returned and with exactly the
\* text it returned; nothing is called again after a failure.
C12_Step ==
    \A i \in Pipelines :
        /\ SttCalled(i) <=> RecorderStopped(i)
        /\ GeminiCalled(i) =>
                /\ pc[i] = "transcribing" /\ pc'[i] = "responding"
                /\ \E reply \in SttReplies : SttSettled(i, reply)
                /\ \A reply \in SttReplies :
                        SttSettled(i, reply) =>
                            /\ reply.status = "200"
                            /\ Len(reply.body) > 0
                            /\ Len(reply.body[1]) > 0
                            /\ reply.body[1][1] # ""
                            /\ \E k \in 1..Len(prompt'[i]) :
                                    prompt'[i][k] = reply.body[1][1]
        /\ SpeechCalled(i) =>
                /\ pc[i] = "responding" /\ pc'[i] = "speaking"
                /\ \E reply \in GeminiReplies : GeminiSettled(i, reply)
                /\ \A reply \in GeminiReplies :
                        GeminiSettled(i, reply) =>
                            /\ reply.status = "200"
                            /\ utterance'[i] = IF NoCandidateText(reply)
                                               THEN Fallback
                                               ELSE reply.body[1][1]
                /\ synthQueue' = Append(synthQueue, i)
        /\ synthQueue' # synthQueue =>
                \/ \E j \in Pipelines : SpeechCalled(j)
                \/ Len(synthQueue') < Len(synthQueue)
        /\ pc'[i] # pc[i] => Rank(pc'[i]) > Rank(pc[i])
        /\ pc[i] \in {"failed", "denied"} =>
                ~SttCalled(i) /\ ~GeminiCalled(i) /\ ~SpeechCalled(i)

C12_CallsInOrderOnce == [][C12_Step]_vars

\* A pipeline speaks the reply that followed its transcript.
C12_Witness ==
    \E i \in Pipelines :
        pc[i] = "speaking" /\ utterance[i] = "Hi there" /\ InQueue(i)

\* C13: the number of capture sources started and not yet stopped is 1
\* whenever the recording flag is true and 0 whenever it is false.
C13_OneCaptureIffRecording ==
    Cardinality({i \in Pipelines : pc[i] = "recording"})
        = IF isRecording THEN 1 ELSE 0

\* C14: when the engine signals the end of the utterance being played the
\* speaking flag becomes false and lastError is unchanged; when it signals
\* an error the flag becomes false and lastError is the playback message,
\* which is neither the processing nor the microphone message.
C14_Step ==
    /\ \A i \in Pipelines :
          /\ (pc[i] = "speaking" /\ pc'[i] = "done") =>
                (~isPlaying' /\ error' = error)
          /\ (pc[i] = "speaking" /\ pc'[i] = "errored") =>
                (~isPlaying' /\ error' = PlaybackMsg)
    /\ (\E i \in Pipelines : pc[i] = "speaking" /\ pc'[i] = "errored") =>
            error' \notin {MicMsg, ProcessingMsg, NoError}

C14_PlaybackCallbacks == [][C14_Step]_vars

\* One utterance ended and another failed, without any cancel.
C14_Witness ==
    /\ calls.cancel = 0
    /\ ~isPlaying
    /\ \E i, j \in Pipelines : pc[i] = "done" /\ pc[j] = "errored"
    /\ error = PlaybackMsg

\* C15: right after the microphone request of a trigger action succeeds,
\* lastError is absent, whatever it was, and the fragment buffer is empty.
C15_Step ==
    \A i \in Pipelines :
        CaptureStarted(i) => (error' = NoError /\ audioChunksRef' = <<>>)

C15_StartClearsError == [][C15_Step]_vars

\* A recording is running, no error is shown, and an earlier attempt failed.
C15_Witness ==
    /\ error = NoError
    /\ audioChunksRef = <<>>
    /\ \E i, j \in Pipelines :
          /\ i > j
          /\ pc[i] = "recording"
          /\ pc[j] \in {"denied", "failed", "errored"}

\* C16: the speaking flag is true exactly when the speech engine holds an
\* utterance, playing or queued.
C16_SpeakingIffEngineBusy ==
    isPlaying <=> synthQueue # <<>>

\* C17: whenever a transcription or response-generation call is
\* outstanding, the processing flag is true.
C17_ProcessingWhileCallOutstanding ==
    (\E i \in Pipelines : pc[i] \in {"transcribing", "responding"})
        => isProcessing

\* C18: whenever lastError is present the phase is Idle.
C18_ErrorOnlyInIdle ==
    error # NoError => AllFalse

====
